---- MODULE Spec2Model ----
(***************************************************************************)
(* Discovery service of ggoranov/noise (base/discovery/service.go).        *)
(*                                                                         *)
(* The service owns a Kademlia routing table and three Disable flags.      *)
(* ReceiveHandler validates an inbound message, resolves sender and        *)
(* recipient by address, decodes the payload and dispatches on the opcode; *)
(* PeerDisconnect removes a peer.  The routing table (package dht), the    *)
(* lookup engine (FindNode), the opcode constants and toProtobufMessage    *)
(* live outside service.go and are modelled from the specification.        *)
(***************************************************************************)
EXTENDS Integers, Sequences, FiniteSets, TLC

\* ------------------------------------------------------------------ bounds
\* Identities are IDBits wide; the peers of the model are 0..MaxID.
IDBits == 3
MaxID == 4
\* Opcodes carried by inbound payloads range over 0..MaxOpcode.
MaxOpcode == 5
\* dht.BucketSize, scaled down (per-bucket capacity and lookup result count).
BucketSize == 2

AllIDs == 0..MaxID
\* the local identities NewService is given in the model
SelfIDs == {0, MaxID}

\* --------------------------------------------------------------- constants
DiscoveryServiceID == 5
opCodePing == 1
opCodePong == 2
opCodeLookupRequest == 3
opCodeLookupResponse == 4
\* the concurrency factor passed to FindNode
LookupConcurrency == 8

OtherServiceID == DiscoveryServiceID + 1

\* ------------------------------------------------------------------ values
Nil == [nil |-> TRUE]
IsNil(x) == x = Nil

NoError == [msg |-> "", opcode |-> -1]
Error(m) == [msg |-> m, opcode |-> -1]
ErrorOp(m, op) == [msg |-> m, opcode |-> op]

\* peer.ID = (Address, Id); the address of the peer with identity p
AddrOf(p) == <<"tcp", p>>
Addresses == {AddrOf(p) : p \in AllIDs}

Ev(op, arg, k, a) == [op |-> op, arg |-> arg, k |-> k, alpha |-> a]

\* ---------------------------------------------------------------- distance
RECURSIVE Xor(_, _)
Xor(a, b) ==
    IF a = 0 THEN b
    ELSE IF b = 0 THEN a
    ELSE (((a % 2) + (b % 2)) % 2) + 2 * Xor(a \div 2, b \div 2)

RECURSIVE BitLen(_)
BitLen(x) == IF x = 0 THEN 0 ELSE 1 + BitLen(x \div 2)

\* number of leading zero bits of an IDBits-wide value
PrefixLen(x) == IDBits - BitLen(x)

\* a is strictly nearer to t than b; equal distance is decided by identity
Nearer(a, b, t) ==
    \/ Xor(a, t) < Xor(b, t)
    \/ Xor(a, t) = Xor(b, t) /\ a < b

Nearest(S, t) == CHOOSE a \in S : \A b \in S \ {a} : Nearer(a, b, t)

RECURSIVE SortByDistance(_, _)
SortByDistance(S, t) ==
    IF S = {} THEN <<>>
    ELSE LET a == Nearest(S, t)
         IN <<a>> \o SortByDistance(S \ {a}, t)

Take(seq, n) == SubSeq(seq, 1, IF Len(seq) < n THEN Len(seq) ELSE n)

Range(seq) == {seq[i] : i \in 1..Len(seq)}

\* ------------------------------------------------------------ RoutingTable
\* A table is a function from bucket index (prefix length of the XOR with
\* the local identity) to the bucket, a sequence with the most recently
\* updated entry first.
Buckets == 0..IDBits

CreateRoutingTable(selfID) == [b \in Buckets |-> <<>>]

BucketOf(selfID, p) == PrefixLen(Xor(p, selfID))

Members(routes) == UNION {Range(routes[b]) : b \in Buckets}

PeerExists(routes, p) == p \in Members(routes)

Without(seq, p) == SelectSeq(seq, LAMBDA x : x # p)

\* insert-or-refresh: the peer becomes the most recent entry of its bucket;
\* a full bucket gives up its least recent entry; the local identity is
\* never stored
Update(routes, selfID, p) ==
    IF p = selfID THEN routes
    ELSE LET b == BucketOf(selfID, p)
         IN [routes EXCEPT ![b] = Take(<<p>> \o Without(routes[b], p), BucketSize)]

RemovePeer(routes, selfID, p) ==
    [b \in Buckets |-> Without(routes[b], p)]

LookupRemoteAddress(routes, addr) ==
    IF \E p \in Members(routes) : AddrOf(p) = addr
    THEN [ok |-> TRUE, id |-> CHOOSE p \in Members(routes) : AddrOf(p) = addr]
    ELSE [ok |-> FALSE, id |-> -1]

FindClosestPeers(routes, target, count) ==
    Take(SortByDistance(Members(routes), target), count)

\* ---------------------------------------------------------------- encoding
\* A protobuf.Message {Opcode, Message} is encoded as the opcode, the length
\* of the content and the content; the empty encoding decodes to the zero
\* message.
Marshal(m) == <<m.Opcode, Len(m.Message)>> \o m.Message

Unmarshal(payload) ==
    IF Len(payload) = 0 THEN [ok |-> TRUE, msg |-> [Opcode |-> 0, Message |-> <<>>]]
    ELSE IF Len(payload) < 2 \/ payload[2] # Len(payload) - 2
    THEN [ok |-> FALSE, msg |-> [Opcode |-> 0, Message |-> <<>>]]
    ELSE [ok |-> TRUE,
          msg |-> [Opcode |-> payload[1], Message |-> SubSeq(payload, 3, Len(payload))]]

\* content records: Pong{} encodes as the empty record, a LookupNodeResponse
\* as its peers in order
PongContent == <<>>
LookupNodeResponse(peers) == peers

\* How the protobuf library answers during one call: "ok", or it fails in
\* the conversion of the content ("convert") or in the encoding ("marshal").
ProtoModes == {"ok", "convert", "marshal"}

toProtobufMessage(proto, opcode, content) ==
    [ok |-> proto # "convert", msg |-> [Opcode |-> opcode, Message |-> content]]

ProtoMarshal(proto, m) ==
    [ok |-> proto # "marshal", bytes |-> Marshal(m)]

\* ----------------------------------------------------------------- network
\* What the send function yields: a remote peer p answers a LookupRequest
\* for a target with the peers nearest to it among those it knows, or the
\* send fails.
NetNone == [known |-> [p \in AllIDs |-> {}], down |-> {}]
NetAll  == [known |-> [p \in AllIDs |-> AllIDs], down |-> {}]
NetNext == [known |-> [p \in AllIDs |-> {(p + 1) % (MaxID + 1)}], down |-> {}]
NetDown == [known |-> [p \in AllIDs |-> AllIDs], down |-> AllIDs]
Nets == {NetNone, NetAll, NetNext, NetDown}

sendHandler(net, p, target, count) ==
    IF p \in net.down THEN {}
    ELSE Range(Take(SortByDistance(net.known[p], target), count))

\* ------------------------------------------------------------ lookup engine
\* One round queries up to alpha unqueried candidates nearest the target and
\* merges their replies; the search stops when every candidate has been
\* queried or a round brings no candidate nearer than the best known.
RECURSIVE LookupRounds(_, _, _, _, _, _, _)
LookupRounds(net, target, count, alpha, cands, queried, sent) ==
    LET unqueried == cands \ queried
        batch == Take(SortByDistance(unqueried, target), alpha)
        replies == UNION {sendHandler(net, p, target, count) : p \in Range(batch)}
        merged == cands \cup replies
        improved == /\ merged # {}
                    /\ \/ cands = {}
                       \/ Nearer(Nearest(merged, target), Nearest(cands, target), target)
    IN IF unqueried = {}
       THEN [peers |-> Take(SortByDistance(cands, target), count), sent |-> sent]
       ELSE IF ~improved
       THEN [peers |-> Take(SortByDistance(merged, target), count),
             sent |-> sent \o batch]
       ELSE LookupRounds(net, target, count, alpha, merged,
                         queried \cup Range(batch), sent \o batch)

FindNode(routes, net, target, count, alpha) ==
    LookupRounds(net, target, count, alpha,
                 Range(FindClosestPeers(routes, target, count)), {}, <<>>)

\* ----------------------------------------------------------------- service
VARIABLES Routes, selfID, DisablePing, DisablePong, DisableLookup, last

\* procs: the calls in flight when calls run concurrently;
\* lookup: the lookup engine in flight when it is followed round by round;
\* pair: the second service and the wire when two services exchange replies.
\* Each is Off wherever calls are taken one at a time and as a whole.
VARIABLES procs, lookup, pair

Off == [phase |-> "off"]

aside == <<procs, lookup, pair>>

vars == <<Routes, selfID, DisablePing, DisablePong, DisableLookup, last,
          procs, lookup, pair>>

\* the Service value a method runs on
Service == [Routes |-> Routes, selfID |-> selfID, DisablePing |-> DisablePing,
            DisablePong |-> DisablePong, DisableLookup |-> DisableLookup,
            proto |-> "ok"]

\* what a call leaves behind: the returned pair, the table, the RoutingTable
\* and lookup calls it made in order, and the peers the send function was
\* asked to reach
Result(reply, err, routes, calls, sent) ==
    [reply |-> reply, err |-> err, Routes |-> routes, calls |-> calls, sent |-> sent]

RECURSIVE UpdateAll(_, _, _)
UpdateAll(routes, self, peers) ==
    IF peers = <<>> THEN routes
    ELSE UpdateAll(Update(routes, self, Head(peers)), self, Tail(peers))

makeMessageBody(proto, opcode, content) ==
    LET m == toProtobufMessage(proto, opcode, content)
        msgBytes == ProtoMarshal(proto, m.msg)
    IN IF ~m.ok
       THEN [reply |-> Nil, err |-> Error("Unable to convert")]
       ELSE IF ~msgBytes.ok
       THEN [reply |-> Nil, err |-> Error("Unable to marshal")]
       ELSE [reply |-> [nil |-> FALSE, Service |-> DiscoveryServiceID,
                        Payload |-> msgBytes.bytes],
             err |-> NoError]

\* variant: the liveness probe is echoed back instead of acknowledged
receivePing_EchoesPing(s, routes, calls) ==
    IF s.DisablePing
    THEN Result(Nil, NoError, routes, calls, <<>>)
    ELSE LET body == makeMessageBody(s.proto, opCodePing, PongContent)
         IN Result(body.reply, body.err, routes, calls, <<>>)

\* case opCodePing
receivePing(s, routes, calls) ==
    IF s.DisablePing
    THEN Result(Nil, NoError, routes, calls, <<>>)
    ELSE LET body == makeMessageBody(s.proto, opCodePong, PongContent)
         IN Result(body.reply, body.err, routes, calls, <<>>)

\* variant: DisablePong is not consulted
receivePong_IgnoresFlag(s, net, sender, routes, calls) ==
    LET found == FindNode(routes, net, sender, BucketSize, LookupConcurrency)
        peers == found.peers
    IN Result(Nil, NoError, UpdateAll(routes, s.selfID, peers),
              calls \o <<Ev("FindNode", sender, BucketSize, LookupConcurrency)>>
                    \o [i \in 1..Len(peers) |-> Ev("Update", peers[i], 0, 0)],
              found.sent)

\* variant: result count and concurrency factor are passed in each other's place
receivePong_SwappedArgs(s, net, sender, routes, calls) ==
    IF s.DisablePong
    THEN Result(Nil, NoError, routes, calls, <<>>)
    ELSE LET found == FindNode(routes, net, sender, LookupConcurrency, BucketSize)
             peers == found.peers
         IN Result(Nil, NoError, UpdateAll(routes, s.selfID, peers),
                   calls \o <<Ev("FindNode", sender, LookupConcurrency, BucketSize)>>
                         \o [i \in 1..Len(peers) |-> Ev("Update", peers[i], 0, 0)],
                   found.sent)

\* variant: the acknowledgement is answered with a new probe
receivePong_AnswersPing(s, net, sender, routes, calls) ==
    IF s.DisablePong
    THEN Result(Nil, NoError, routes, calls, <<>>)
    ELSE LET body == makeMessageBody(s.proto, opCodePing, PongContent)
         IN Result(body.reply, body.err, routes, calls, <<>>)

\* case opCodePong
receivePong(s, net, sender, routes, calls) ==
    IF s.DisablePong
    THEN Result(Nil, NoError, routes, calls, <<>>)
    ELSE LET found == FindNode(routes, net, sender, BucketSize, LookupConcurrency)
             peers == found.peers
         IN Result(Nil, NoError, UpdateAll(routes, s.selfID, peers),
                   calls \o <<Ev("FindNode", sender, BucketSize, LookupConcurrency)>>
                         \o [i \in 1..Len(peers) |-> Ev("Update", peers[i], 0, 0)],
                   found.sent)

\* variant: the nearest peers are taken relative to the local identity
receiveLookupRequest_NearSelf(s, target, routes, calls) ==
    IF s.DisableLookup
    THEN Result(Nil, NoError, routes, calls, <<>>)
    ELSE LET peers == FindClosestPeers(routes, s.selfID, BucketSize)
             body == makeMessageBody(s.proto, opCodeLookupResponse,
                                     LookupNodeResponse(peers))
         IN Result(body.reply, body.err, routes,
                   calls \o <<Ev("FindClosestPeers", s.selfID, BucketSize, 0)>>, <<>>)

\* case opCodeLookupRequest
receiveLookupRequest(s, target, routes, calls) ==
    IF s.DisableLookup
    THEN Result(Nil, NoError, routes, calls, <<>>)
    ELSE LET peers == FindClosestPeers(routes, target, BucketSize)
             body == makeMessageBody(s.proto, opCodeLookupResponse,
                                     LookupNodeResponse(peers))
         IN Result(body.reply, body.err, routes,
                   calls \o <<Ev("FindClosestPeers", target, BucketSize, 0)>>, <<>>)

\* variant: an unrecognised opcode is silently dropped
receiveDefault_Silent(msg, routes, calls) ==
    Result(Nil, NoError, routes, calls, <<>>)

\* default
receiveDefault(msg, routes, calls) ==
    Result(Nil, ErrorOp("Unknown message opcode type", msg.Opcode), routes, calls, <<>>)

receive(s, net, sender, target, msg) ==
    LET routes == Update(s.Routes, s.selfID, sender)
        calls == <<Ev("Update", sender, 0, 0)>>
    IN CASE msg.Opcode = opCodePing -> receivePing(s, routes, calls)
         [] msg.Opcode = opCodePong -> receivePong(s, net, sender, routes, calls)
         [] msg.Opcode = opCodeLookupRequest -> receiveLookupRequest(s, target, routes, calls)
         [] OTHER -> receiveDefault(msg, routes, calls)

\* variant: the service tag is not compared
IsCorrupt_IgnoresService(message) ==
    \/ IsNil(message)
    \/ IsNil(message.Body)

IsCorrupt(message) ==
    \/ IsNil(message)
    \/ IsNil(message.Body)
    \/ message.Body.Service # DiscoveryServiceID

IsMissingPayload(message) == Len(message.Body.Payload) = 0

\* variant: the addresses are resolved before the payload length is looked at
ReceiveHandler_ResolvesFirst(s, net, message) ==
    IF IsCorrupt(message)
    THEN Result(Nil, Error("Message is corrupt"), s.Routes, <<>>, <<>>)
    ELSE LET sender == LookupRemoteAddress(s.Routes, message.Sender)
             target == LookupRemoteAddress(s.Routes, message.Recipient)
             decoded == Unmarshal(message.Body.Payload)
         IN IF ~sender.ok
            THEN Result(Nil, Error("Unable to lookup sender"), s.Routes, <<>>, <<>>)
            ELSE IF ~target.ok
            THEN Result(Nil, Error("Unable to lookup recipient"), s.Routes, <<>>, <<>>)
            ELSE IF IsMissingPayload(message)
            THEN Result(Nil, Error("Message body is missing"), s.Routes, <<>>, <<>>)
            ELSE IF ~decoded.ok
            THEN Result(Nil, Error("Unable to parse message"), s.Routes, <<>>, <<>>)
            ELSE LET r == receive(s, net, sender.id, target.id, decoded.msg)
                 IN IF r.err # NoError
                    THEN Result(Nil, r.err, r.Routes, r.calls, r.sent)
                    ELSE r

\* variant: a recipient that does not resolve is taken to be the sender
ReceiveHandler_ToleratesRecipient(s, net, message) ==
    IF IsCorrupt(message)
    THEN Result(Nil, Error("Message is corrupt"), s.Routes, <<>>, <<>>)
    ELSE IF IsMissingPayload(message)
    THEN Result(Nil, Error("Message body is missing"), s.Routes, <<>>, <<>>)
    ELSE LET sender == LookupRemoteAddress(s.Routes, message.Sender)
             target == LookupRemoteAddress(s.Routes, message.Recipient)
             decoded == Unmarshal(message.Body.Payload)
         IN IF ~sender.ok
            THEN Result(Nil, Error("Unable to lookup sender"), s.Routes, <<>>, <<>>)
            ELSE IF ~decoded.ok
            THEN Result(Nil, Error("Unable to parse message"), s.Routes, <<>>, <<>>)
            ELSE LET r == receive(s, net, sender.id,
                                  IF target.ok THEN target.id ELSE sender.id,
                                  decoded.msg)
                 IN IF r.err # NoError
                    THEN Result(Nil, r.err, r.Routes, r.calls, r.sent)
                    ELSE r

\* variant: the sender is refreshed as soon as it has been resolved
ReceiveHandler_UpdatesEarly(s, net, message) ==
    IF IsCorrupt(message)
    THEN Result(Nil, Error("Message is corrupt"), s.Routes, <<>>, <<>>)
    ELSE IF IsMissingPayload(message)
    THEN Result(Nil, Error("Message body is missing"), s.Routes, <<>>, <<>>)
    ELSE LET sender == LookupRemoteAddress(s.Routes, message.Sender)
             target == LookupRemoteAddress(s.Routes, message.Recipient)
             decoded == Unmarshal(message.Body.Payload)
             early == Update(s.Routes, s.selfID, sender.id)
         IN IF ~sender.ok
            THEN Result(Nil, Error("Unable to lookup sender"), s.Routes, <<>>, <<>>)
            ELSE IF ~target.ok
            THEN Result(Nil, Error("Unable to lookup recipient"), early, <<>>, <<>>)
            ELSE IF ~decoded.ok
            THEN Result(Nil, Error("Unable to parse message"), early, <<>>, <<>>)
            ELSE LET r == receive(s, net, sender.id, target.id, decoded.msg)
                 IN IF r.err # NoError
                    THEN Result(Nil, r.err, r.Routes, r.calls, r.sent)
                    ELSE r

\* variant: a failed dispatch is answered with an empty body next to the error
ReceiveHandler_RepliesOnError(s, net, message) ==
    IF IsCorrupt(message)
    THEN Result(Nil, Error("Message is corrupt"), s.Routes, <<>>, <<>>)
    ELSE IF IsMissingPayload(message)
    THEN Result(Nil, Error("Message body is missing"), s.Routes, <<>>, <<>>)
    ELSE LET sender == LookupRemoteAddress(s.Routes, message.Sender)
             target == LookupRemoteAddress(s.Routes, message.Recipient)
             decoded == Unmarshal(message.Body.Payload)
         IN IF ~sender.ok
            THEN Result(Nil, Error("Unable to lookup sender"), s.Routes, <<>>, <<>>)
            ELSE IF ~target.ok
            THEN Result(Nil, Error("Unable to lookup recipient"), s.Routes, <<>>, <<>>)
            ELSE IF ~decoded.ok
            THEN Result(Nil, Error("Unable to parse message"), s.Routes, <<>>, <<>>)
            ELSE LET r == receive(s, net, sender.id, target.id, decoded.msg)
                 IN IF r.err # NoError
                    THEN Result([nil |-> FALSE, Service |-> DiscoveryServiceID,
                                 Payload |-> <<>>],
                                r.err, r.Routes, r.calls, r.sent)
                    ELSE r

ReceiveHandler(s, net, message) ==
    IF IsCorrupt(message)
    THEN Result(Nil, Error("Message is corrupt"), s.Routes, <<>>, <<>>)
    ELSE IF IsMissingPayload(message)
    THEN Result(Nil, Error("Message body is missing"), s.Routes, <<>>, <<>>)
    ELSE LET sender == LookupRemoteAddress(s.Routes, message.Sender)
             target == LookupRemoteAddress(s.Routes, message.Recipient)
             decoded == Unmarshal(message.Body.Payload)
         IN IF ~sender.ok
            THEN Result(Nil, Error("Unable to lookup sender"), s.Routes, <<>>, <<>>)
            ELSE IF ~target.ok
            THEN Result(Nil, Error("Unable to lookup recipient"), s.Routes, <<>>, <<>>)
            ELSE IF ~decoded.ok
            THEN Result(Nil, Error("Unable to parse message"), s.Routes, <<>>, <<>>)
            ELSE LET r == receive(s, net, sender.id, target.id, decoded.msg)
                 IN IF r.err # NoError
                    THEN Result(Nil, r.err, r.Routes, r.calls, r.sent)
                    ELSE r

\* variant: the existence test is inverted
PeerDisconnect_InvertedGuard(s, target) ==
    IF ~PeerExists(s.Routes, target)
    THEN Result(Nil, NoError, RemovePeer(s.Routes, s.selfID, target),
                <<Ev("PeerExists", target, 0, 0), Ev("RemovePeer", target, 0, 0)>>, <<>>)
    ELSE Result(Nil, NoError, s.Routes, <<Ev("PeerExists", target, 0, 0)>>, <<>>)

PeerDisconnect(s, target) ==
    IF PeerExists(s.Routes, target)
    THEN Result(Nil, NoError, RemovePeer(s.Routes, s.selfID, target),
                <<Ev("PeerExists", target, 0, 0), Ev("RemovePeer", target, 0, 0)>>, <<>>)
    ELSE Result(Nil, NoError, s.Routes, <<Ev("PeerExists", target, 0, 0)>>, <<>>)

\* ------------------------------------------------------------------ inputs
Payloads ==
    {<<>>, <<opCodePing>>} \cup {<<op, 0>> : op \in 0..MaxOpcode}

Bodies ==
    {Nil}
    \cup {[nil |-> FALSE, Service |-> DiscoveryServiceID, Payload |-> pl] : pl \in Payloads}
    \cup {[nil |-> FALSE, Service |-> OtherServiceID, Payload |-> pl] :
            pl \in {<<>>, <<opCodePing, 0>>}}

Messages ==
    {Nil} \cup {[nil |-> FALSE, Sender |-> a, Recipient |-> b, Body |-> body] :
                  a \in Addresses, b \in Addresses, body \in Bodies}

\* the send function is reached from the Pong branch only: the other
\* messages are delivered under one network
NetsFor(message) ==
    IF /\ ~IsCorrupt(message)
       /\ Unmarshal(message.Body.Payload).msg.Opcode = opCodePong
    THEN Nets
    ELSE {NetNone}

Idle == [op |-> "none"]

\* ----------------------------------------------------------------- actions
\* NewService(sendHandler, selfID); the Disable flags are plain fields the
\* owner sets before use
\* variant: the constructor stores the local identity in its own bucket
Init_SelfInserted ==
    /\ selfID \in SelfIDs
    /\ Routes = [CreateRoutingTable(selfID) EXCEPT ![BucketOf(selfID, selfID)] = <<selfID>>]
    /\ DisablePing \in BOOLEAN
    /\ DisablePong \in BOOLEAN
    /\ DisableLookup \in BOOLEAN
    /\ last = Idle
    /\ procs = Off /\ lookup = Off /\ pair = Off

Init ==
    /\ selfID \in SelfIDs
    /\ Routes = CreateRoutingTable(selfID)
    /\ DisablePing \in BOOLEAN
    /\ DisablePong \in BOOLEAN
    /\ DisableLookup \in BOOLEAN
    /\ last = Idle
    /\ procs = Off /\ lookup = Off /\ pair = Off

\* the transport registers a connected peer through the exported Routes field
Connect(p) ==
    /\ last = Idle
    /\ Routes' = Update(Routes, selfID, p)
    /\ UNCHANGED <<selfID, DisablePing, DisablePong, DisableLookup, last>>
    /\ UNCHANGED aside

ReceiveHandlerCall(message, net) ==
    /\ last = Idle
    /\ LET r == ReceiveHandler(Service, net, message)
       IN /\ Routes' = r.Routes
          /\ last' = [op |-> "ReceiveHandler", message |-> message, pre |-> Routes,
                      reply |-> r.reply, err |-> r.err, calls |-> r.calls,
                      sent |-> r.sent]
    /\ UNCHANGED <<selfID, DisablePing, DisablePong, DisableLookup>>
    /\ UNCHANGED aside

PeerDisconnectCall(p) ==
    /\ last = Idle
    /\ LET r == PeerDisconnect(Service, p)
       IN /\ Routes' = r.Routes
          /\ last' = [op |-> "PeerDisconnect", target |-> p, pre |-> Routes,
                      reply |-> r.reply, err |-> r.err, calls |-> r.calls,
                      sent |-> r.sent]
    /\ UNCHANGED <<selfID, DisablePing, DisablePong, DisableLookup>>
    /\ UNCHANGED aside

\* the caller has taken the result of the call
Return ==
    /\ last # Idle
    /\ last' = Idle
    /\ UNCHANGED <<Routes, selfID, DisablePing, DisablePong, DisableLookup>>
    /\ UNCHANGED aside

Next ==
    \/ \E p \in AllIDs : Connect(p)
    \/ \E message \in Messages :
          \E net \in NetsFor(message) : ReceiveHandlerCall(message, net)
    \/ \E p \in AllIDs : PeerDisconnectCall(p)
    \/ Return

Spec == Init /\ [][Next]_vars

\* ------------------------------------------------- serialization failures
\* The same service, with the protobuf library free to fail while a reply is
\* built.  A reply is built for Ping and LookupRequest only: the other
\* messages are delivered with the library answering "ok".
ProtoModesFor(message) ==
    IF /\ ~IsCorrupt(message)
       /\ Unmarshal(message.Body.Payload).msg.Opcode \in {opCodePing, opCodeLookupRequest}
    THEN ProtoModes
    ELSE {"ok"}

InitSerial ==
    /\ selfID = 0
    /\ Routes = CreateRoutingTable(selfID)
    /\ DisablePing \in BOOLEAN
    /\ DisablePong \in BOOLEAN
    /\ DisableLookup \in BOOLEAN
    /\ last = Idle
    /\ procs = Off /\ lookup = Off /\ pair = Off

ReceiveHandlerSerial(message, net, proto) ==
    /\ last = Idle
    /\ LET r == ReceiveHandler([Service EXCEPT !.proto = proto], net, message)
       IN /\ Routes' = r.Routes
          /\ last' = [op |-> "ReceiveHandler", message |-> message, pre |-> Routes,
                      reply |-> r.reply, err |-> r.err, calls |-> r.calls,
                      sent |-> r.sent, proto |-> proto]
    /\ UNCHANGED <<selfID, DisablePing, DisablePong, DisableLookup>>
    /\ UNCHANGED aside

NextSerial ==
    \/ \E p \in AllIDs : Connect(p)
    \/ \E message \in Messages :
          \E net \in NetsFor(message), proto \in ProtoModesFor(message) :
             ReceiveHandlerSerial(message, net, proto)
    \/ Return

SpecSerial == InitSerial /\ [][NextSerial]_vars

\* -------------------------------------------------------- concurrent calls
\* ReceiveHandler and PeerDisconnect running at the same time on one service.
\* Each RoutingTable call is atomic; a step of a call is its next RoutingTable
\* call together with the local computation that follows it.

\* a ReceiveHandler call about to make its first RoutingTable call
ReceiveStart(message, net) ==
    [pc |-> "LookupSender", message |-> message, net |-> net, sender |-> -1,
     target |-> -1, opcode |-> -1, todo |-> <<>>, upserted |-> {},
     reply |-> Nil, err |-> NoError]

\* variant: the loop over the lookup result upserts the sender each time
mergeStep_UpdatesSender(s, r) ==
    [r |-> [r EXCEPT !.pc = IF Len(r.todo) = 1 THEN "done" ELSE "Merge",
                     !.todo = Tail(r.todo),
                     !.upserted = @ \cup {r.sender}],
     Routes |-> Update(s.Routes, s.selfID, r.sender)]

\* one turn of the loop over the lookup result (lines 85-87)
mergeStep(s, r) ==
    [r |-> [r EXCEPT !.pc = IF Len(r.todo) = 1 THEN "done" ELSE "Merge",
                     !.todo = Tail(r.todo),
                     !.upserted = @ \cup {Head(r.todo)}],
     Routes |-> Update(s.Routes, s.selfID, Head(r.todo))]

\* the next step of ReceiveHandler (lines 43-110)
receiveStep(s, r) ==
    CASE r.pc = "LookupSender" ->
            LET sender == LookupRemoteAddress(s.Routes, r.message.Sender)
            IN IF ~sender.ok
               THEN [r |-> [r EXCEPT !.pc = "done", !.err = Error("Unable to lookup sender")],
                     Routes |-> s.Routes]
               ELSE [r |-> [r EXCEPT !.pc = "LookupRecipient", !.sender = sender.id],
                     Routes |-> s.Routes]
      [] r.pc = "LookupRecipient" ->
            LET target == LookupRemoteAddress(s.Routes, r.message.Recipient)
                decoded == Unmarshal(r.message.Body.Payload)
            IN IF ~target.ok
               THEN [r |-> [r EXCEPT !.pc = "done", !.err = Error("Unable to lookup recipient")],
                     Routes |-> s.Routes]
               ELSE IF ~decoded.ok
               THEN [r |-> [r EXCEPT !.pc = "done", !.err = Error("Unable to parse message")],
                     Routes |-> s.Routes]
               ELSE [r |-> [r EXCEPT !.pc = "Update", !.target = target.id,
                                     !.opcode = decoded.msg.Opcode],
                     Routes |-> s.Routes]
      [] r.pc = "Update" ->
            LET routes == Update(s.Routes, s.selfID, r.sender)
                u == [r EXCEPT !.upserted = @ \cup {r.sender}]
            IN CASE r.opcode = opCodePing ->
                      IF s.DisablePing
                      THEN [r |-> [u EXCEPT !.pc = "done"], Routes |-> routes]
                      ELSE LET body == makeMessageBody(s.proto, opCodePong, PongContent)
                           IN [r |-> [u EXCEPT !.pc = "done", !.reply = body.reply,
                                               !.err = body.err],
                               Routes |-> routes]
                 [] r.opcode = opCodePong ->
                      [r |-> [u EXCEPT !.pc = IF s.DisablePong THEN "done" ELSE "FindNode"],
                       Routes |-> routes]
                 [] r.opcode = opCodeLookupRequest ->
                      [r |-> [u EXCEPT !.pc = IF s.DisableLookup THEN "done"
                                              ELSE "FindClosestPeers"],
                       Routes |-> routes]
                 [] OTHER ->
                      [r |-> [u EXCEPT !.pc = "done",
                                       !.err = ErrorOp("Unknown message opcode type", r.opcode)],
                       Routes |-> routes]
      [] r.pc = "FindNode" ->
            LET found == FindNode(s.Routes, r.net, r.sender, BucketSize, LookupConcurrency)
            IN [r |-> [r EXCEPT !.pc = IF found.peers = <<>> THEN "done" ELSE "Merge",
                                !.todo = found.peers],
                Routes |-> s.Routes]
      [] r.pc = "Merge" -> mergeStep(s, r)
      [] r.pc = "FindClosestPeers" ->
            LET peers == FindClosestPeers(s.Routes, r.target, BucketSize)
                body == makeMessageBody(s.proto, opCodeLookupResponse,
                                        LookupNodeResponse(peers))
            IN [r |-> [r EXCEPT !.pc = "done", !.reply = body.reply, !.err = body.err],
                Routes |-> s.Routes]

\* a PeerDisconnect call about to make its first RoutingTable call
DisconnectStart(target) ==
    [pc |-> "PeerExists", target |-> target, exists |-> FALSE, err |-> NoError]

\* the next step of PeerDisconnect (lines 116-117)
disconnectStep(s, d) ==
    CASE d.pc = "PeerExists" ->
            LET exists == PeerExists(s.Routes, d.target)
            IN [d |-> [d EXCEPT !.pc = IF exists THEN "RemovePeer" ELSE "done",
                                !.exists = exists],
                Routes |-> s.Routes]
      [] d.pc = "RemovePeer" ->
            [d |-> [d EXCEPT !.pc = "done"],
             Routes |-> RemovePeer(s.Routes, s.selfID, d.target)]

\* the messages delivered while a disconnect is in flight: Ping, Pong and
\* LookupRequest from any address, addressed to the sender's own address
ConcMessages ==
    {[nil |-> FALSE, Sender |-> a, Recipient |-> a,
      Body |-> [nil |-> FALSE, Service |-> DiscoveryServiceID, Payload |-> <<op, 0>>]] :
        a \in Addresses, op \in {opCodePing, opCodePong, opCodeLookupRequest}}

InitConc ==
    /\ selfID = 0
    /\ Routes = CreateRoutingTable(selfID)
    /\ DisablePing = FALSE
    /\ DisablePong = FALSE
    /\ DisableLookup = FALSE
    /\ last = Idle
    /\ procs = Off /\ lookup = Off /\ pair = Off

\* peers connect before the two calls start
ConnectConc(p) ==
    /\ procs = Off
    /\ Connect(p)

\* ReceiveHandler(message) and PeerDisconnect(target) are invoked together
StartConc(message, net, target) ==
    /\ procs = Off
    /\ procs' = [phase |-> "run", R |-> ReceiveStart(message, net),
                 D |-> DisconnectStart(target), wrote |-> "none"]
    /\ UNCHANGED <<Routes, selfID, DisablePing, DisablePong, DisableLookup, last,
                   lookup, pair>>

\* wrote remembers the last completed write on the disconnected peer
StepReceive ==
    /\ procs # Off
    /\ procs.R.pc # "done"
    /\ LET x == receiveStep(Service, procs.R)
           onTarget == \/ procs.R.pc = "Update" /\ procs.R.sender = procs.D.target
                       \/ procs.R.pc = "Merge" /\ Head(procs.R.todo) = procs.D.target
       IN /\ Routes' = x.Routes
          /\ procs' = [procs EXCEPT !.R = x.r,
                                    !.wrote = IF onTarget THEN "upsert" ELSE @]
    /\ UNCHANGED <<selfID, DisablePing, DisablePong, DisableLookup, last, lookup, pair>>

StepDisconnect ==
    /\ procs # Off
    /\ procs.D.pc # "done"
    /\ LET x == disconnectStep(Service, procs.D)
       IN /\ Routes' = x.Routes
          /\ procs' = [procs EXCEPT !.D = x.d,
                                    !.wrote = IF procs.D.pc = "RemovePeer" THEN "remove" ELSE @]
    /\ UNCHANGED <<selfID, DisablePing, DisablePong, DisableLookup, last, lookup, pair>>

NextConc ==
    \/ \E p \in AllIDs : ConnectConc(p)
    \/ \E message \in ConcMessages, target \in AllIDs :
          \E net \in NetsFor(message) : StartConc(message, net, target)
    \/ StepReceive
    \/ StepDisconnect

SpecConc == InitConc /\ [][NextConc]_vars

\* ------------------------------------------------- lookup engine, stepwise
\* FindNode followed request by request.  A round selects a batch, issues a
\* LookupRequest to each peer of the batch, and ends when every request of
\* the batch has resolved; replies may arrive while requests are still being
\* issued.
Alphas == {1, BucketSize, LookupConcurrency}

\* every peer knows its predecessor, and the send to peer 1 fails
NetFlaky == [known |-> [p \in AllIDs |-> {(p + MaxID) % (MaxID + 1)}], down |-> {1}]
LookupNets == Nets \cup {NetFlaky}

\* The engine keeps, for its target, every identity in order of distance
\* (L.order) and what the send function returns for each peer (L.answers);
\* neither changes while the lookup runs.
Within(seq, S) == SelectSeq(seq, LAMBDA x : x \in S)

\* variant: the batch is taken from all candidates, queried or not
selectBatch_IncludesQueried(L) ==
    Take(Within(L.order, L.cands), L.alpha)

\* up to alpha unqueried candidates, nearest to the target first
selectBatch(L) ==
    Take(Within(L.order, L.cands \ L.queried), L.alpha)

\* variant: a failed send is not taken off the outstanding requests
resolveSend_FailureHangs(L, p) ==
    IF p \in L.net.down
    THEN L
    ELSE [L EXCEPT !.outstanding = @ \ {p},
                   !.cands = @ \cup L.answers[p],
                   !.replies = @ \cup L.answers[p]]

\* the send to p resolves, with a reply that is merged or with a failure
resolveSend(L, p) ==
    [L EXCEPT !.outstanding = @ \ {p},
              !.cands = @ \cup L.answers[p],
              !.replies = @ \cup L.answers[p]]

\* variant: the result is cut from the candidates in identity order
finalResult_ByIdentity(L) ==
    Take(Within([i \in 1..(MaxID + 1) |-> i - 1], L.cands), L.count)

\* the count nearest candidates, nearest first
finalResult(L) ==
    Take(Within(L.order, L.cands), L.count)

\* the round brought a candidate nearer than the best known before it
improved(L) ==
    /\ L.cands # {}
    /\ \/ L.best = -1
       \/ Nearer(Nearest(L.cands, L.target), L.best, L.target)

InitLookup ==
    /\ selfID = 0
    /\ Routes = CreateRoutingTable(selfID)
    /\ DisablePing = FALSE
    /\ DisablePong = FALSE
    /\ DisableLookup = FALSE
    /\ last = Idle
    /\ procs = Off /\ lookup = Off /\ pair = Off

\* peers connect before the lookup starts
ConnectLookup(p) ==
    /\ lookup = Off
    /\ Connect(p)

\* FindNode(routes, sendHandler, target, count, alpha): the candidates are
\* seeded with the count nearest peers of the table
StartLookup(target, net, alpha) ==
    /\ lookup = Off
    /\ lookup' = [phase |-> "run", pc |-> "select", target |-> target, net |-> net,
                  count |-> BucketSize, alpha |-> alpha,
                  order |-> SortByDistance(AllIDs, target),
                  answers |-> [p \in AllIDs |-> sendHandler(net, p, target, BucketSize)],
                  seed |-> Range(FindClosestPeers(Routes, target, BucketSize)),
                  cands |-> Range(FindClosestPeers(Routes, target, BucketSize)),
                  queried |-> {}, outstanding |-> {}, pending |-> <<>>,
                  batch |-> <<>>, unqueried |-> {}, best |-> -1, replies |-> {},
                  sent |-> <<>>, rounds |-> 0, result |-> <<>>, table |-> Routes]
    /\ UNCHANGED <<Routes, selfID, DisablePing, DisablePong, DisableLookup, last,
                   procs, pair>>

\* a round starts, or the search ends because every candidate was queried
SelectRound ==
    /\ lookup # Off
    /\ lookup.pc = "select"
    /\ lookup' =
         IF lookup.cands \ lookup.queried = {}
         THEN [lookup EXCEPT !.pc = "done", !.result = finalResult(lookup)]
         ELSE [lookup EXCEPT !.pc = "issue",
                             !.batch = selectBatch(lookup),
                             !.pending = selectBatch(lookup),
                             !.unqueried = lookup.cands \ lookup.queried,
                             !.best = Nearest(lookup.cands, lookup.target),
                             !.rounds = @ + 1]
    /\ UNCHANGED <<Routes, selfID, DisablePing, DisablePong, DisableLookup, last,
                   procs, pair>>

\* the next request of the batch goes out and its peer is marked queried
IssueRequest ==
    /\ lookup # Off
    /\ lookup.pc = "issue"
    /\ lookup.pending # <<>>
    /\ lookup' = [lookup EXCEPT !.pending = Tail(@),
                                !.outstanding = @ \cup {Head(lookup.pending)},
                                !.queried = @ \cup {Head(lookup.pending)},
                                !.sent = Append(@, Head(lookup.pending))]
    /\ UNCHANGED <<Routes, selfID, DisablePing, DisablePong, DisableLookup, last,
                   procs, pair>>

ResolveSend(p) ==
    /\ lookup # Off
    /\ lookup.pc = "issue"
    /\ p \in lookup.outstanding
    /\ lookup' = resolveSend(lookup, p)
    /\ UNCHANGED <<Routes, selfID, DisablePing, DisablePong, DisableLookup, last,
                   procs, pair>>

\* every request of the round has resolved
EndRound ==
    /\ lookup # Off
    /\ lookup.pc = "issue"
    /\ lookup.pending = <<>>
    /\ lookup.outstanding = {}
    /\ lookup' =
         IF improved(lookup)
         THEN [lookup EXCEPT !.pc = "select"]
         ELSE [lookup EXCEPT !.pc = "done", !.result = finalResult(lookup)]
    /\ UNCHANGED <<Routes, selfID, DisablePing, DisablePong, DisableLookup, last,
                   procs, pair>>

\* the dispatch that called FindNode upserts the result and returns
ReturnLookup ==
    /\ lookup # Off
    /\ lookup.pc = "done"
    /\ Routes' = UpdateAll(Routes, selfID, lookup.result)
    /\ lookup' = [lookup EXCEPT !.pc = "returned"]
    /\ UNCHANGED <<selfID, DisablePing, DisablePong, DisableLookup, last, procs, pair>>

LookupStep ==
    \/ IssueRequest
    \/ EndRound
    \/ ReturnLookup
    \/ SelectRound
    \/ \E p \in AllIDs : ResolveSend(p)

NextLookup ==
    \/ \E p \in AllIDs : ConnectLookup(p)
    \/ \E target \in AllIDs, net \in LookupNets, alpha \in Alphas : StartLookup(target, net, alpha)
    \/ SelectRound
    \/ IssueRequest
    \/ \E p \in AllIDs : ResolveSend(p)
    \/ EndRound
    \/ ReturnLookup

SpecLookup == InitLookup /\ [][NextLookup]_vars

\* Termination is followed on the networks that answer in part or not at
\* all, with one request at a time and with the concurrency of the call.
FairNets == {NetNext, NetDown, NetFlaky}
FairAlphas == {1, LookupConcurrency}

NextLookupFair ==
    \/ \E p \in AllIDs : ConnectLookup(p)
    \/ \E target \in AllIDs, net \in FairNets, alpha \in FairAlphas :
          StartLookup(target, net, alpha)
    \/ SelectRound
    \/ IssueRequest
    \/ \E p \in AllIDs : ResolveSend(p)
    \/ EndRound
    \/ ReturnLookup

\* every send resolves and the engine keeps running once it has started
SpecLookupFair == InitLookup /\ [][NextLookupFair]_vars /\ WF_vars(LookupStep)

\* ------------------------------------------------------ two services
\* Service A is the service of the variables above; service B and the wire
\* between them are kept in pair.  One message is handed to one of the two
\* from outside; every reply body a ReceiveHandler returns is wrapped into a
\* message from the replying service and delivered to the other service.
MaxHops == 3

PairPeers == {0, 1, MaxID}
PairNets == {NetNone, NetDown}
Other(side) == IF side = "A" THEN "B" ELSE "A"

ServiceOf(side) == IF side = "A" THEN Service ELSE pair.B

InitPair ==
    /\ selfID = 0
    /\ Routes = CreateRoutingTable(selfID)
    /\ DisablePing \in BOOLEAN
    /\ DisablePong \in BOOLEAN
    /\ DisableLookup \in BOOLEAN
    /\ last = Idle
    /\ procs = Off /\ lookup = Off
    /\ \E ping \in BOOLEAN, pong \in BOOLEAN :
          pair = [phase |-> "run",
                  B |-> [Routes |-> CreateRoutingTable(MaxID), selfID |-> MaxID,
                         DisablePing |-> ping, DisablePong |-> pong,
                         DisableLookup |-> FALSE, proto |-> "ok"],
                  wire |-> Nil, to |-> "A", first |-> Nil,
                  replies |-> 0, hops |-> 0, errs |-> <<>>]

\* before the exchange, peers connect to either service
ConnectPair(side, p) ==
    /\ pair.hops = 0
    /\ IsNil(pair.first)
    /\ IF side = "A"
       THEN /\ Routes' = Update(Routes, selfID, p)
            /\ pair' = pair
       ELSE /\ Routes' = Routes
            /\ pair' = [pair EXCEPT !.B.Routes = Update(@, pair.B.selfID, p)]
    /\ UNCHANGED <<selfID, DisablePing, DisablePong, DisableLookup, last, procs, lookup>>

\* the single inbound message that starts the exchange
Inject(side, message) ==
    /\ IsNil(pair.first)
    /\ ~IsNil(message)
    /\ pair' = [pair EXCEPT !.wire = message, !.to = side, !.first = message]
    /\ UNCHANGED <<Routes, selfID, DisablePing, DisablePong, DisableLookup, last,
                   procs, lookup>>

\* the message on the wire reaches the ReceiveHandler of its destination;
\* a reply body goes onto the wire towards the other service
Deliver(net, rcpt) ==
    /\ ~IsNil(pair.wire)
    /\ pair.hops < MaxHops
    /\ LET s == ServiceOf(pair.to)
           r == ReceiveHandler(s, net, pair.wire)
           answer == [nil |-> FALSE, Sender |-> AddrOf(s.selfID),
                      Recipient |-> rcpt, Body |-> r.reply]
       IN /\ Routes' = IF pair.to = "A" THEN r.Routes ELSE Routes
          /\ pair' = [pair EXCEPT
                        !.B.Routes = IF pair.to = "B" THEN r.Routes ELSE @,
                        !.wire = IF IsNil(r.reply) THEN Nil ELSE answer,
                        !.to = Other(@),
                        !.replies = IF IsNil(r.reply) THEN @ ELSE @ + 1,
                        !.hops = @ + 1,
                        !.errs = Append(@, r.err)]
    /\ UNCHANGED <<selfID, DisablePing, DisablePong, DisableLookup, last, procs, lookup>>

PairAddresses == {AddrOf(p) : p \in PairPeers}

\* well-formed bodies of every opcode
PairBodies ==
    {[nil |-> FALSE, Service |-> DiscoveryServiceID, Payload |-> <<op, 0>>] :
        op \in 0..MaxOpcode}

PairMessages ==
    {[nil |-> FALSE, Sender |-> a, Recipient |-> b, Body |-> body] :
        a \in PairAddresses, b \in PairAddresses, body \in PairBodies}

NextPair ==
    \/ \E side \in {"A", "B"}, p \in PairPeers : ConnectPair(side, p)
    \/ \E side \in {"A", "B"}, message \in PairMessages : Inject(side, message)
    \/ \E net \in PairNets, rcpt \in PairAddresses : Deliver(net, rcpt)

SpecPair == InitPair /\ [][NextPair]_vars

\* ------------------------------------------------------------- observations
Called == last.op = "ReceiveHandler"

Tagged(m) == m # Nil /\ m.Body # Nil /\ m.Body.Service = DiscoveryServiceID

Resolves(routes, addr) == \E p \in Members(routes) : AddrOf(p) = addr
Resolved(routes, addr) == CHOOSE p \in Members(routes) : AddrOf(p) = addr

\* correct tag, non-empty decodable payload, resolvable sender and recipient
WellFormed(m, routes) ==
    /\ Tagged(m)
    /\ m.Body.Payload # <<>>
    /\ Unmarshal(m.Body.Payload).ok
    /\ Resolves(routes, m.Sender)
    /\ Resolves(routes, m.Recipient)

OpcodeOf(m) == Unmarshal(m.Body.Payload).msg.Opcode

\* a well-formed message of the given opcode was handled
Handled(op) ==
    /\ Called
    /\ WellFormed(last.message, last.pre)
    /\ OpcodeOf(last.message) = op

LastSender == Resolved(last.pre, last.message.Sender)
LastTarget == Resolved(last.pre, last.message.Recipient)

UnknownOpcode(op) == ErrorOp("Unknown message opcode type", op)

\* the sender is the most recently updated entry of its bucket
Refreshed(routes, p) ==
    /\ p \in Members(routes)
    /\ Head(routes[BucketOf(selfID, p)]) = p

\* ------------------------------------------------------------------ claims
\* C1: a message that is nil, has a nil body or carries a foreign service
\* tag is answered with an error and no reply, and the routing table
\* (membership and recency order) is as it was before the call.
C1_CorruptRejected ==
    (Called /\ ~Tagged(last.message)) =>
        /\ last.err # NoError
        /\ last.reply = Nil
        /\ Routes = last.pre

C1_Witness ==
    /\ Called
    /\ last.message # Nil
    /\ last.message.Body # Nil
    /\ last.message.Body.Service = OtherServiceID
    /\ OpcodeOf(last.message) = opCodePing
    /\ Resolves(last.pre, last.message.Sender)
    /\ Resolves(last.pre, last.message.Recipient)
    /\ ~Refreshed(last.pre, LastSender)
    /\ last.err = Error("Message is corrupt")

\* C2: a correctly tagged message with an empty payload is answered with the
\* missing-payload error and no reply, whether or not sender and recipient
\* resolve, and the routing table is unchanged.
C2_MissingPayload ==
    (Called /\ Tagged(last.message) /\ last.message.Body.Payload = <<>>) =>
        /\ last.err = Error("Message body is missing")
        /\ last.reply = Nil
        /\ Routes = last.pre

C2_Witness ==
    /\ Called
    /\ Tagged(last.message)
    /\ last.message.Body.Payload = <<>>
    /\ ~Resolves(last.pre, last.message.Sender)
    /\ ~Resolves(last.pre, last.message.Recipient)
    /\ last.err = Error("Message body is missing")

\* C3: a well-formed message whose opcode is none of Ping, Pong,
\* LookupRequest, LookupResponse is answered with no reply and the
\* unknown-opcode error carrying that opcode, whatever the Disable flags.
C3_UnknownOpcode ==
    (/\ Called
     /\ WellFormed(last.message, last.pre)
     /\ OpcodeOf(last.message) \notin
            {opCodePing, opCodePong, opCodeLookupRequest, opCodeLookupResponse}) =>
        /\ last.reply = Nil
        /\ last.err = UnknownOpcode(OpcodeOf(last.message))

C3_Witness ==
    /\ Handled(MaxOpcode)
    /\ DisablePing /\ DisablePong /\ DisableLookup
    /\ last.err = UnknownOpcode(MaxOpcode)

\* C4: a well-formed LookupResponse is not an error at dispatch: it does not
\* fail with the unknown-opcode error, produces no reply, and only the sender
\* refresh occurs.
C4_LookupResponseAccepted ==
    Handled(opCodeLookupResponse) =>
        /\ last.err # UnknownOpcode(opCodeLookupResponse)
        /\ last.reply = Nil
        /\ Routes = Update(last.pre, selfID, LastSender)

\* C5: a valid Ping with DisablePing false yields a reply and no error; the
\* reply is tagged with the discovery service and decodes to a Pong with an
\* empty record; the sender is then a member and the most recent entry of
\* its bucket.
C5_PingAnswered ==
    (Handled(opCodePing) /\ ~DisablePing) =>
        /\ last.err = NoError
        /\ last.reply # Nil
        /\ last.reply.Service = DiscoveryServiceID
        /\ Unmarshal(last.reply.Payload).ok
        /\ Unmarshal(last.reply.Payload).msg = [Opcode |-> opCodePong, Message |-> <<>>]
        /\ Refreshed(Routes, LastSender)

C5_Witness ==
    /\ Handled(opCodePing)
    /\ ~DisablePing
    /\ ~Refreshed(last.pre, LastSender)
    /\ last.reply # Nil

\* C6: a valid Ping, Pong or LookupRequest whose Disable flag is set yields
\* no reply and no error; the sender is refreshed and nothing else happens:
\* nothing goes through the send function, no lookup and no nearest-peers
\* query is made, and no other peer is inserted.
C6_DisabledIsRefreshOnly ==
    (\/ Handled(opCodePing) /\ DisablePing
     \/ Handled(opCodePong) /\ DisablePong
     \/ Handled(opCodeLookupRequest) /\ DisableLookup) =>
        /\ last.reply = Nil
        /\ last.err = NoError
        /\ last.sent = <<>>
        /\ last.calls = <<Ev("Update", LastSender, 0, 0)>>
        /\ Routes = Update(last.pre, selfID, LastSender)

C6_Witness ==
    /\ Handled(opCodePong)
    /\ DisablePong
    /\ ~Refreshed(last.pre, LastSender)
    /\ Refreshed(Routes, LastSender)
    /\ Cardinality(Members(Routes)) > 1

\* C7: a valid LookupRequest with DisableLookup false, addressed to T, is
\* answered with a LookupResponse whose peers number min(K, N) for the N
\* known peers, are pairwise distinct, come in non-decreasing XOR distance to
\* T with equal distances in identity order, and leave out no known peer
\* nearer to T than one they include.
C7_NearestToRecipient ==
    (Handled(opCodeLookupRequest) /\ ~DisableLookup) =>
        /\ last.err = NoError
        /\ last.reply # Nil
        /\ last.reply.Service = DiscoveryServiceID
        /\ Unmarshal(last.reply.Payload).ok
        /\ Unmarshal(last.reply.Payload).msg.Opcode = opCodeLookupResponse
        /\ LET peers == Unmarshal(last.reply.Payload).msg.Message
               T == LastTarget
               N == Cardinality(Members(Routes))
           IN /\ Len(peers) = IF N < BucketSize THEN N ELSE BucketSize
              /\ Range(peers) \subseteq Members(Routes)
              /\ \A i, j \in 1..Len(peers) :
                    i < j =>
                        \/ Xor(peers[i], T) < Xor(peers[j], T)
                        \/ Xor(peers[i], T) = Xor(peers[j], T) /\ peers[i] < peers[j]
              /\ \A p \in Range(peers), q \in Members(Routes) \ Range(peers) :
                    Xor(p, T) <= Xor(q, T)

C7_Witness ==
    /\ Handled(opCodeLookupRequest)
    /\ ~DisableLookup
    /\ Cardinality(Members(Routes)) > BucketSize
    /\ LastTarget # LastSender
    /\ last.reply # Nil
    /\ Len(Unmarshal(last.reply.Payload).msg.Message) = BucketSize

\* C8: a valid Pong (DisablePong false) from a sender S that was not in the
\* routing table before the call leaves S in the table, with a lookup for
\* target S triggered and every peer it discovered present in the table.
C8_UnknownSenderInserted ==
    \A S \in AllIDs \ {selfID} :
        (/\ Called
         /\ Tagged(last.message)
         /\ last.message.Body.Payload # <<>>
         /\ Unmarshal(last.message.Body.Payload).ok
         /\ OpcodeOf(last.message) = opCodePong
         /\ ~DisablePong
         /\ last.message.Sender = AddrOf(S)
         /\ S \notin Members(last.pre)
         /\ Resolves(last.pre, last.message.Recipient)) =>
            /\ S \in Members(Routes)
            /\ \E i \in 1..Len(last.calls) :
                  /\ last.calls[i] = Ev("FindNode", S, BucketSize, LookupConcurrency)
                  /\ \A j \in (i + 1)..Len(last.calls) :
                        last.calls[j].arg # selfID =>
                            last.calls[j].arg \in Members(Routes)

C10_Disconnect ==
    last.op = "PeerDisconnect" =>
        LET P == last.target
        IN /\ last.err = NoError
           /\ P \in Members(last.pre) =>
                 /\ P \notin Members(Routes)
                 /\ \A b \in Buckets :
                       Routes[b] = SelectSeq(last.pre[b], LAMBDA x : x # P)
           /\ P \notin Members(last.pre) => Routes = last.pre

C10_Witness ==
    /\ last.op = "PeerDisconnect"
    /\ last.target \in Members(last.pre)
    /\ Len(last.pre[BucketOf(selfID, last.target)]) > 1
    /\ last.target \notin Members(Routes)
    /\ Members(Routes) # {}

\* C11: a tagged message with a payload whose sender address is not found in
\* the routing table fails with the unresolved-sender error; one whose sender
\* resolves but whose recipient does not fails with the unresolved-recipient
\* error; in both cases there is no reply, nothing is dispatched and the
\* routing table is unchanged.
C11_Unresolved ==
    (Called /\ Tagged(last.message) /\ last.message.Body.Payload # <<>>) =>
        /\ ~Resolves(last.pre, last.message.Sender) =>
              /\ last.err = Error("Unable to lookup sender")
              /\ last.reply = Nil
              /\ last.calls = <<>>
              /\ Routes = last.pre
        /\ (/\ Resolves(last.pre, last.message.Sender)
            /\ ~Resolves(last.pre, last.message.Recipient)) =>
              /\ last.err = Error("Unable to lookup recipient")
              /\ last.reply = Nil
              /\ last.calls = <<>>
              /\ Routes = last.pre

C11_Witness ==
    /\ Called
    /\ Tagged(last.message)
    /\ last.message.Body.Payload # <<>>
    /\ Resolves(last.pre, last.message.Sender)
    /\ ~Refreshed(last.pre, Resolved(last.pre, last.message.Sender))
    /\ ~Resolves(last.pre, last.message.Recipient)
    /\ last.err = Error("Unable to lookup recipient")

\* the failures raised before the dispatch step
ValidationErrors ==
    {Error("Message is corrupt"), Error("Message body is missing"),
     Error("Unable to lookup sender"), Error("Unable to lookup recipient"),
     Error("Unable to parse message")}

SerializationErrors == {Error("Unable to convert"), Error("Unable to marshal")}

\* C12 (as stated): whenever ReceiveHandler returns an error of any kind, the
\* routing table after the call equals the routing table before the call,
\* recency order included.
C12_FailureLeavesTable ==
    (Called /\ last.err # NoError) => Routes = last.pre

\* C12 (amended): a failure raised before dispatch (corrupt message, missing
\* payload, unresolved sender or recipient, decode failure) leaves the routing
\* table as it was; a failure raised by dispatch (unknown opcode,
\* serialization failure) comes after the sender refresh, which is then the
\* only change: the membership is the same and every bucket but the sender's
\* is untouched.
C12_FailureBeforeDispatch ==
    (Called /\ last.err # NoError) =>
        IF last.err \in ValidationErrors
        THEN Routes = last.pre /\ last.calls = <<>>
        ELSE /\ \/ last.err \in SerializationErrors
                \/ last.err = UnknownOpcode(OpcodeOf(last.message))
             /\ last.calls[1] = Ev("Update", LastSender, 0, 0)
             /\ Members(Routes) = Members(last.pre)
             /\ \A b \in Buckets \ {BucketOf(selfID, LastSender)} :
                   Routes[b] = last.pre[b]
             /\ Routes[BucketOf(selfID, LastSender)] =
                   <<LastSender>> \o SelectSeq(last.pre[BucketOf(selfID, LastSender)],
                                               LAMBDA x : x # LastSender)

C12_Witness ==
    /\ Handled(MaxOpcode)
    /\ last.err = UnknownOpcode(MaxOpcode)
    /\ ~Refreshed(last.pre, LastSender)
    /\ Refreshed(Routes, LastSender)
    /\ Routes # last.pre

\* C13: ReceiveHandler returns either no error (with or without a reply) or
\* an error and no reply, never a reply together with an error, also when
\* building the reply fails inside makeMessageBody.
C13_ReplyOrError ==
    Called =>
        \/ last.err = NoError
        \/ last.err # NoError /\ last.reply = Nil

C13_Witness ==
    /\ Handled(opCodeLookupRequest)
    /\ ~DisableLookup
    /\ last.proto = "marshal"
    /\ last.err = Error("Unable to marshal")
    /\ last.reply = Nil

Running == procs # Off
BothDone == Running /\ procs.R.pc = "done" /\ procs.D.pc = "done"

\* C15: no call writes to the routing table on the strength of an earlier
\* read of it made in the same call, so under every interleaving of
\* ReceiveHandler and PeerDisconnect what a call has read still holds when
\* the call issues the write that follows it: the resolved sender is still a
\* member when it is refreshed, and the peer found to exist is still a member
\* when it is removed.
C15_NoStaleRead ==
    Running =>
        /\ procs.R.pc = "Update" => PeerExists(Routes, procs.R.sender)
        /\ procs.D.pc = "RemovePeer" => PeerExists(Routes, procs.D.target)

\* C16: when PeerDisconnect(P) runs concurrently with a dispatch that upserts
\* P, neither call raises an error, a call that has not finished can always
\* take its next step, and once both have finished P is a member exactly when
\* the last completed write on P was an upsert.
C16_LastWriteWins ==
    /\ (Running /\ ~BothDone) =>
          \/ procs.R.pc \in {"LookupSender", "LookupRecipient", "Update", "FindNode",
                             "Merge", "FindClosestPeers"}
          \/ procs.D.pc \in {"PeerExists", "RemovePeer"}
    /\ (/\ BothDone
        /\ procs.D.target # selfID
        /\ procs.D.target \in procs.R.upserted) =>
            /\ procs.R.err = NoError
            /\ procs.D.err = NoError
            /\ procs.wrote \in {"upsert", "remove"}
            /\ PeerExists(Routes, procs.D.target) <=> procs.wrote = "upsert"

C16_Witness ==
    /\ BothDone
    /\ procs.D.target # selfID
    /\ procs.D.target \in procs.R.upserted
    /\ procs.D.target # procs.R.sender
    /\ procs.D.exists
    /\ procs.wrote = "upsert"
    /\ PeerExists(Routes, procs.D.target)

C16_WitnessRemoveLast ==
    /\ BothDone
    /\ procs.D.target \in procs.R.upserted
    /\ procs.wrote = "remove"
    /\ ~PeerExists(Routes, procs.D.target)

\* ---------------------------------------------------------------------- C17
Started == lookup # Off
Finished == lookup # Off /\ lookup.pc \in {"done", "returned"}
Returned == lookup # Off /\ lookup.pc = "returned"

\* C17: every lookup terminates, given that every send resolves with a reply
\* or a failure: a started lookup ends, at the first round that brings no
\* nearer peer or once every known candidate has been queried, and the
\* dispatch that called it then returns.
C17_Terminates ==
    /\ [](Finished => \/ lookup.cands \subseteq lookup.queried
                      \/ ~improved(lookup))
    /\ [](Finished => lookup.outstanding = {} /\ lookup.pending = <<>>)
    /\ (Started ~> Returned)

C17_Witness ==
    /\ Returned
    /\ lookup.rounds >= 2
    /\ lookup.net.down # {}
    /\ lookup.queried \cap lookup.net.down # {}

\* ---------------------------------------------------------------------- C18
NoDuplicates(seq) == \A i, j \in 1..Len(seq) : seq[i] = seq[j] => i = j

\* C18: at most alpha requests are outstanding at any moment, the batch of a
\* round is the nearest not yet queried candidates, and no candidate is sent
\* more than one request during a lookup.
C18_BoundedParallelism ==
    Started =>
        /\ Cardinality(lookup.outstanding) <= lookup.alpha
        /\ lookup.outstanding \subseteq Range(lookup.batch)
        /\ Range(lookup.batch) \subseteq lookup.unqueried
        /\ Len(lookup.batch) = IF Cardinality(lookup.unqueried) < lookup.alpha
                               THEN Cardinality(lookup.unqueried) ELSE lookup.alpha
        /\ \A p \in Range(lookup.batch), q \in lookup.unqueried \ Range(lookup.batch) :
              ~Nearer(q, p, lookup.target)
        /\ NoDuplicates(lookup.sent)
        /\ Range(lookup.sent) = lookup.queried

C18_Witness ==
    /\ Started
    /\ lookup.rounds >= 2
    /\ Cardinality(lookup.outstanding) = lookup.alpha
    /\ lookup.unqueried \ Range(lookup.batch) # {}
    /\ lookup.queried \ Range(lookup.batch) # {}

\* two requests are in flight at once
C18_WitnessParallel ==
    /\ Started
    /\ Cardinality(lookup.outstanding) >= 2

\* ---------------------------------------------------------------------- C19
\* C19: the result holds at most K entries, none twice, and they are the K
\* nearest to the target among all candidates gathered; the order in which
\* the replies arrive does not change it.
C19_Result ==
    Finished =>
        /\ Len(lookup.result) <= lookup.count
        /\ NoDuplicates(lookup.result)
        /\ lookup.cands = lookup.seed \cup lookup.replies
        /\ Range(lookup.result) \subseteq lookup.cands
        /\ Len(lookup.result) = IF Cardinality(lookup.cands) < lookup.count
                                THEN Cardinality(lookup.cands) ELSE lookup.count
        /\ \A p \in Range(lookup.result), q \in lookup.cands \ Range(lookup.result) :
              ~Nearer(q, p, lookup.target)
        /\ lookup.result = FindNode(lookup.table, lookup.net, lookup.target,
                                    lookup.count, lookup.alpha).peers

C19_Witness ==
    /\ Finished
    /\ lookup.rounds >= 2
    /\ Cardinality(lookup.cands) > lookup.count
    /\ ~(lookup.replies \subseteq lookup.seed)
    /\ Len(lookup.result) = lookup.count

\* ---------------------------------------------------------------------- C20
FirstOpcode == Unmarshal(pair.first.Body.Payload).msg.Opcode

\* C20: an exchange between two services that deliver each other's reply
\* bodies produces at most one reply: once a reply has been delivered, the
\* service that received it returns no reply and the wire stays empty.
C20_OneReply ==
    /\ pair.replies <= 1
    /\ pair.hops <= 2
    /\ pair.hops = 2 => IsNil(pair.wire)

\* Ping, answered with a Pong, which is accepted without a reply
C20_Witness ==
    /\ pair.hops = 2
    /\ pair.replies = 1
    /\ IsNil(pair.wire)
    /\ FirstOpcode = opCodePing
    /\ pair.errs = <<NoError, NoError>>

\* LookupRequest, answered with a LookupResponse, which draws no reply
C20_WitnessLookup ==
    /\ pair.hops = 2
    /\ pair.replies = 1
    /\ IsNil(pair.wire)
    /\ FirstOpcode = opCodeLookupRequest
    /\ pair.errs[1] = NoError

====
